---- MODULE Spec2Model ----
(***************************************************************************)
(* A model of spreadsheet_server.py: the line-delimited JSON-RPC request   *)
(* loop (main, handle_tool_call) and the SpreadsheetServer operations on   *)
(* the files below the base directory.                                     *)
(*                                                                         *)
(* Text that the code inspects character by character (filenames, paths,   *)
(* colours) is a sequence of one-character strings, so that startswith,    *)
(* endswith, lstrip and Path.suffix are computed as the code computes      *)
(* them.  Text that the code only stores and returns (cell values, sheet   *)
(* titles) is a TLA+ string.                                               *)
(***************************************************************************)
EXTENDS Integers, Sequences, FiniteSets, TLC

(***************************************************************************)
(* Bounds of the model.                                                    *)
(***************************************************************************)
\* requests read from standard input in one run of the server
MaxRequests == 2
\* longest colour body (after the '#' characters) that is tried
MaxColorLen == 9

(***************************************************************************)
(* Character strings.                                                      *)
(***************************************************************************)
Slash == <<"/">>
Dot == <<".">>
XLSX == <<"x", "l", "s", "x">>
CSV == <<"c", "s", "v">>
TXT == <<"t", "x", "t">>

\* str.startswith(prefix)
StartsWith(s, prefix) ==
    /\ Len(prefix) <= Len(s)
    /\ SubSeq(s, 1, Len(prefix)) = prefix

\* str.endswith(suffix)
EndsWith(s, suffix) ==
    /\ Len(suffix) <= Len(s)
    /\ SubSeq(s, Len(s) - Len(suffix) + 1, Len(s)) = suffix

\* index of the last occurrence of character ch in s, 0 when there is none
LastIndexOf(s, ch) ==
    LET hits == {i \in 1..Len(s) : s[i] = ch}
    IN  IF hits = {} THEN 0 ELSE CHOOSE i \in hits : \A j \in hits : j <= i

\* str.split("/"): the segments of s between the '/' characters
RECURSIVE SplitSlash(_)
SplitSlash(s) ==
    LET hits == {i \in 1..Len(s) : s[i] = "/"}
    IN  IF hits = {} THEN <<s>>
        ELSE LET i == CHOOSE k \in hits : \A j \in hits : k <= j
             IN  <<SubSeq(s, 1, i - 1)>> \o SplitSlash(SubSeq(s, i + 1, Len(s)))

\* str.lower() on the characters the model uses
LowerChar(c) ==
    CASE c = "A" -> "a" [] c = "B" -> "b" [] c = "C" -> "c" [] c = "F" -> "f"
      [] c = "X" -> "x" [] c = "L" -> "l" [] c = "S" -> "s" [] c = "V" -> "v"
      [] OTHER -> c

Lower(s) == [i \in 1..Len(s) |-> LowerChar(s[i])]

\* str.upper() on the characters the model uses
UpperChar(c) ==
    CASE c = "a" -> "A" [] c = "b" -> "B" [] c = "c" -> "C" [] c = "f" -> "F"
      [] c = "x" -> "X" [] c = "l" -> "L" [] c = "s" -> "S" [] c = "v" -> "V"
      [] OTHER -> c

Upper(s) == [i \in 1..Len(s) |-> UpperChar(s[i])]

(***************************************************************************)
(* Paths.  A path is the character string of its absolute, resolved form.  *)
(***************************************************************************)
\* the working directory of the process, and the default base_path argument
\* ("spreadsheets", abbreviated to one character)
Cwd == <<"/", "w">>
DefaultBasePath == <<"s">>

\* PurePath.__truediv__: an absolute right operand replaces the left one
JoinPath(base, filename) ==
    IF StartsWith(filename, Slash) THEN filename
    ELSE IF filename = <<>> THEN base
    ELSE base \o Slash \o filename

\* the '.' and '..' segments of an absolute path applied from left to right
RECURSIVE NormSegments(_, _)
NormSegments(todo, done) ==
    IF todo = <<>> THEN done
    ELSE LET seg == Head(todo)
         IN  IF seg = <<>> \/ seg = Dot THEN NormSegments(Tail(todo), done)
             ELSE IF seg = <<".", ".">>
                  THEN NormSegments(Tail(todo),
                                    IF done = <<>> THEN done
                                    ELSE SubSeq(done, 1, Len(done) - 1))
             ELSE NormSegments(Tail(todo), Append(done, seg))

RECURSIVE JoinSegments(_)
JoinSegments(segs) ==
    IF segs = <<>> THEN <<>>
    ELSE Slash \o Head(segs) \o JoinSegments(Tail(segs))

\* Path.resolve(): absolute (relative to the working directory), without
\* '.' and '..' segments.  The directories of the model hold no symlinks.
ResolveStr(p) ==
    LET abs == IF StartsWith(p, Slash) THEN p ELSE Cwd \o Slash \o p
        segs == NormSegments(SplitSlash(abs), <<>>)
    IN  IF segs = <<>> THEN Slash ELSE JoinSegments(segs)

\* Path.parent and Path.name of a resolved path
ParentOf(path) ==
    LET i == LastIndexOf(path, "/")
    IN  IF i <= 1 THEN Slash ELSE SubSeq(path, 1, i - 1)

NameOf(path) == SubSeq(path, LastIndexOf(path, "/") + 1, Len(path))

\* Path.suffix: from the last '.' of the name, unless the name starts with
\* that '.' or ends with it
SuffixOf(path) ==
    LET name == NameOf(path)
        i == LastIndexOf(name, ".")
    IN  IF i <= 1 \/ i = Len(name) THEN <<>> ELSE SubSeq(name, i, Len(name))

(***************************************************************************)
(* Cell values, cells and worksheets, as openpyxl keeps them in memory and *)
(* as they come back from a saved file.                                    *)
(***************************************************************************)
\* None, and a string value (a formula is a string that starts with '=')
NoneV == [k |-> "none", s |-> ""]
StrV(x) == [k |-> "str", s |-> x]

NoFont == [bold |-> FALSE, italic |-> FALSE]
BoldFont == [bold |-> TRUE, italic |-> FALSE]
NoFill == <<>>

\* Cell(ws, row, column, value): a new cell carries no style
NewCell(v) == [value |-> v, font |-> NoFont, fill |-> NoFill]

\* Cell.has_style
HasStyle(c) == c.font # NoFont \/ c.fill # NoFill

EmptyCells == [k \in {} |-> NewCell(NoneV)]

\* Worksheet.max_row and Worksheet.max_column: 1 for a sheet without cells
MaxRow(cells) ==
    IF DOMAIN cells = {} THEN 1
    ELSE CHOOSE r \in {k[1] : k \in DOMAIN cells} :
             \A k \in DOMAIN cells : k[1] <= r

MaxCol(cells) ==
    IF DOMAIN cells = {} THEN 1
    ELSE CHOOSE c \in {k[2] : k \in DOMAIN cells} :
             \A k \in DOMAIN cells : k[2] <= c

\* Workbook(): one sheet, without cells
NewSheet(title) == [title |-> title, cells |-> EmptyCells, current_row |-> 0]

\* load_workbook binds the cells of the file; _current_row is max_row when
\* the sheet has cells and stays 0 otherwise
LoadSheet(s) ==
    [title |-> s.title, cells |-> s.cells,
     current_row |-> IF DOMAIN s.cells = {} THEN 0 ELSE MaxRow(s.cells)]

\* Workbook.save then load_workbook, for one sheet: a cell without value
\* and without style is not written; an empty string is written as a cell
\* without value and comes back as None
SaveSheet(ws) ==
    LET kept == {k \in DOMAIN ws.cells :
                    ws.cells[k].value # NoneV \/ HasStyle(ws.cells[k])}
    IN  [title |-> ws.title,
         cells |-> [k \in kept |->
                       IF ws.cells[k].value = StrV("")
                       THEN [ws.cells[k] EXCEPT !.value = NoneV]
                       ELSE ws.cells[k]]]

\* Worksheet.append(row): the values go to the row after _current_row, one
\* new cell per value
WsAppend(ws, row) ==
    LET r == ws.current_row + 1
        new == {<<r, c>> : c \in 1..Len(row)}
    IN  [ws EXCEPT !.cells = [k \in DOMAIN ws.cells \cup new |->
                                 IF k \in new THEN NewCell(row[k[2]])
                                 ELSE ws.cells[k]],
                   !.current_row = r]

RECURSIVE WsAppendAll(_, _)
WsAppendAll(ws, rows) ==
    IF rows = <<>> THEN ws
    ELSE WsAppendAll(WsAppend(ws, Head(rows)), Tail(rows))

\* ws[cell] = value: the cell is created when the sheet has none there
WsSet(ws, coord, v) ==
    [ws EXCEPT !.cells = [k \in DOMAIN ws.cells \cup {coord} |->
                             IF k = coord
                             THEN IF coord \in DOMAIN ws.cells
                                  THEN [ws.cells[k] EXCEPT !.value = v]
                                  ELSE NewCell(v)
                             ELSE ws.cells[k]],
                   !.current_row = IF coord[1] > ws.current_row
                                   THEN coord[1] ELSE ws.current_row]

\* ws[cell].value
WsGet(ws, coord) ==
    IF coord \in DOMAIN ws.cells THEN ws.cells[coord].value ELSE NoneV

\* ws.delete_rows(1, ws.max_row): every cell goes, _current_row is 0
WsDeleteAllRows(ws) == [ws EXCEPT !.cells = EmptyCells, !.current_row = 0]

\* for cell in ws[1]: cell.font = Font(bold=True); ws[1] is row 1 from
\* column 1 to max_column
WsBoldFirstRow(ws) ==
    LET row1 == {<<1, c>> : c \in 1..MaxCol(ws.cells)}
    IN  [ws EXCEPT !.cells = [k \in DOMAIN ws.cells \cup row1 |->
                                 IF k \in row1
                                 THEN IF k \in DOMAIN ws.cells
                                      THEN [ws.cells[k] EXCEPT !.font = BoldFont]
                                      ELSE [NewCell(NoneV) EXCEPT !.font = BoldFont]
                                 ELSE ws.cells[k]]]

\* [[c.value for c in row] for row in ws.iter_rows()], cut at max_rows
\* (0 for no cap): nothing for a sheet whose _current_row is 0, else rows
\* 1..max_row by columns 1..max_column
IterRows(ws, max_rows) ==
    IF ws.current_row = 0 THEN <<>>
    ELSE LET total == MaxRow(ws.cells)
             n == IF max_rows # 0 /\ max_rows < total THEN max_rows ELSE total
         IN  [r \in 1..n |-> [c \in 1..MaxCol(ws.cells) |-> WsGet(ws, <<r, c>>)]]

\* the sheet titles of a workbook, and the position of a title
SheetNames(sheets) == {sheets[i].title : i \in 1..Len(sheets)}
SheetIndex(sheets, title) == CHOOSE i \in 1..Len(sheets) : sheets[i].title = title

\* csv.writer: None is written as the empty string, a string as itself
CsvField(v) == IF v = NoneV THEN "" ELSE v.s
CsvRow(row) == [i \in 1..Len(row) |-> CsvField(row[i])]
CsvRows(rows) == [i \in 1..Len(rows) |-> CsvRow(rows[i])]

(***************************************************************************)
(* The file system: a function from the resolved paths that exist to what  *)
(* is there: a directory, the bytes of a workbook (its saved sheets), the   *)
(* text of a csv file (its rows), or bytes that are neither.                *)
(***************************************************************************)
Dir == [kind |-> "dir", sheets |-> <<>>, rows |-> <<>>]
XlsxFile(sheets) == [kind |-> "xlsx", sheets |-> sheets, rows |-> <<>>]
CsvFile(rows) == [kind |-> "csv", sheets |-> <<>>, rows |-> rows]
JunkFile == [kind |-> "junk", sheets |-> <<>>, rows |-> <<>>]

\* Path.exists()
Exists(fsys, path) == path \in DOMAIN fsys

IsDir(fsys, path) == Exists(fsys, path) /\ fsys[path].kind = "dir"
IsFile(fsys, path) == Exists(fsys, path) /\ fsys[path].kind # "dir"

Put(fsys, path, content) ==
    [p \in DOMAIN fsys \cup {path} |-> IF p = path THEN content ELSE fsys[p]]

Remove(fsys, path) == [p \in DOMAIN fsys \ {path} |-> fsys[p]]

\* what an operation hands to handle_tool_call: the file system it leaves,
\* and the dict it returns or the exception it raises
Return(fsys, result) == [fs |-> fsys, exc |-> "", result |-> result]
Raise(fsys, exc) == [fs |-> fsys, exc |-> exc, result |-> [success |-> FALSE]]

\* open(path, 'w') and Workbook.save(path) create the file in an existing
\* directory only
CanCreateAt(fsys, path) == ~IsDir(fsys, path) /\ IsDir(fsys, ParentOf(path))

\* Path.rename(new) (os.rename): a file or a whole directory moves; the
\* directory that receives it must exist, and a directory cannot move
\* below itself
RenameTreeKeepingOld(fsys, old, new) ==
    [q \in DOMAIN fsys \cup {new} |-> IF q = new THEN fsys[old] ELSE fsys[q]]

RenameTree(fsys, old, new) ==
    LET moved == {p \in DOMAIN fsys : p = old \/ StartsWith(p, old \o Slash)}
        Target(p) == new \o SubSeq(p, Len(old) + 1, Len(p))
        Origin(q) == CHOOSE p \in moved : Target(p) = q
    IN  [q \in (DOMAIN fsys \ moved) \cup {Target(p) : p \in moved} |->
            IF q \in {Target(p) : p \in moved} THEN fsys[Origin(q)] ELSE fsys[q]]

RenameError(fsys, old, new) ==
    IF ~IsDir(fsys, ParentOf(new)) THEN "FileNotFoundError"
    ELSE IF IsDir(fsys, old) /\ StartsWith(new, old \o Slash) THEN "OSError"
    ELSE ""

\* openpyxl.load_workbook(path): the name must carry the .xlsx extension
\* and the file must hold a workbook
LoadError(fsys, path) ==
    IF Lower(SuffixOf(path)) # Dot \o XLSX THEN "InvalidFileException"
    ELSE IF IsDir(fsys, path) THEN "IsADirectoryError"
    ELSE IF fsys[path].kind # "xlsx" THEN "BadZipFile"
    ELSE ""

LoadWorkbook(fsys, path) ==
    [i \in 1..Len(fsys[path].sheets) |-> LoadSheet(fsys[path].sheets[i])]

\* wb.save(path): every sheet of the workbook is written
SaveWorkbook(fsys, path, wb) ==
    Put(fsys, path, XlsxFile([i \in 1..Len(wb) |-> SaveSheet(wb[i])]))

\* open(path, 'r', encoding='utf-8') and csv.reader: only text decodes
CsvReadError(fsys, path) ==
    IF IsDir(fsys, path) THEN "IsADirectoryError"
    ELSE IF fsys[path].kind # "csv" THEN "UnicodeDecodeError"
    ELSE ""

(***************************************************************************)
(* SpreadsheetServer.  Every operation takes the base path and the file    *)
(* system and gives what it returns or raises and the file system after.   *)
(* An absent (None) or empty sheet argument is "", an absent or empty      *)
(* headers argument is <<>>, an absent or zero max_rows is 0: the code      *)
(* tests all of them for truth only.                                       *)
(***************************************************************************)
\* _resolve_path: the path, or the exception raised
InsideBase(path, base) == StartsWith(path, ResolveStr(base))

ResolvePath(base, fsys, filename, check_exists) ==
    LET path == ResolveStr(JoinPath(base, filename))
    IN  IF ~InsideBase(path, base)
        THEN [exc |-> "PathTraversal", path |-> path]
        ELSE IF check_exists /\ ~Exists(fsys, path)
        THEN [exc |-> "FileNotFoundError", path |-> path]
        ELSE [exc |-> "", path |-> path]

\* filename with '.' + format appended unless it ends with it already
WithExtension(filename, format) ==
    IF EndsWith(filename, Dot \o format) THEN filename
    ELSE filename \o Dot \o format

\* create_spreadsheet's "if path.exists()"
TargetExistsNever(fsys, path) == FALSE

TargetExists(fsys, path) == Exists(fsys, path)

\* rename_file's "if new.exists()"
NewNameTakenNever(fsys, path) == FALSE

NewNameTaken(fsys, path) == Exists(fsys, path)

CreatedSheet(sheet_name, headers) ==
    IF headers # <<>>
    THEN WsBoldFirstRow(WsAppend(NewSheet(sheet_name), headers))
    ELSE NewSheet(sheet_name)

create_spreadsheet(base, fsys, filename, format, headers, sheet_name) ==
    LET fname == WithExtension(filename, format)
        r == ResolvePath(base, fsys, fname, FALSE)
        path == r.path
    IN  IF r.exc # "" THEN Raise(fsys, r.exc)
        ELSE IF TargetExists(fsys, path)
        THEN Return(fsys, [success |-> FALSE, error |-> "already exists"])
        ELSE IF format = XLSX
        THEN IF ~CanCreateAt(fsys, path) THEN Raise(fsys, "FileNotFoundError")
             ELSE Return(SaveWorkbook(fsys, path,
                                      <<CreatedSheet(sheet_name, headers)>>),
                         [success |-> TRUE, filename |-> fname, path |-> path])
        ELSE IF format = CSV
        THEN IF ~CanCreateAt(fsys, path) THEN Raise(fsys, "FileNotFoundError")
             ELSE Return(Put(fsys, path,
                             CsvFile(IF headers # <<>>
                                     THEN <<CsvRow(headers)>> ELSE <<>>)),
                         [success |-> TRUE, filename |-> fname, path |-> path])
        ELSE Raise(fsys, "UnsupportedFormat")

rename_file(base, fsys, old_filename, new_filename) ==
    LET o == ResolvePath(base, fsys, old_filename, TRUE)
        n == ResolvePath(base, fsys, new_filename, FALSE)
    IN  IF o.exc # "" THEN Raise(fsys, o.exc)
        ELSE IF n.exc # "" THEN Raise(fsys, n.exc)
        ELSE IF NewNameTaken(fsys, n.path)
        THEN Return(fsys, [success |-> FALSE, error |-> "target exists"])
        ELSE IF RenameError(fsys, o.path, n.path) # ""
        THEN Raise(fsys, RenameError(fsys, o.path, n.path))
        ELSE Return(RenameTree(fsys, o.path, n.path),
                    [success |-> TRUE, old |-> NameOf(o.path),
                     new |-> NameOf(n.path)])

\* wb[sheet] if sheet else wb.active: the position of the sheet, 0 when
\* wb[sheet] raises KeyError.  The active sheet is the first one.
PickSheet(wb, sheet) ==
    IF sheet = "" THEN 1
    ELSE IF sheet \in SheetNames(wb) THEN SheetIndex(wb, sheet)
    ELSE 0

\* len(data[0]) if data else 0
ColumnsOf(data) == IF data = <<>> THEN 0 ELSE Len(data[1])

\* data[:max_rows] if max_rows
CapRows(data, max_rows) ==
    IF max_rows # 0 /\ max_rows < Len(data) THEN SubSeq(data, 1, max_rows)
    ELSE data

\* the rows csv.reader gives, as values
CsvData(rows) ==
    [i \in 1..Len(rows) |-> [j \in 1..Len(rows[i]) |-> StrV(rows[i][j])]]

read_spreadsheet(base, fsys, filename, sheet, max_rows) ==
    LET r == ResolvePath(base, fsys, filename, TRUE)
        path == r.path
        ext == Lower(SuffixOf(path))
    IN  IF r.exc # "" THEN Raise(fsys, r.exc)
        ELSE IF ext = Dot \o XLSX
        THEN IF LoadError(fsys, path) # "" THEN Raise(fsys, LoadError(fsys, path))
             ELSE LET wb == LoadWorkbook(fsys, path)
                      i == PickSheet(wb, sheet)
                  IN  IF i = 0 THEN Raise(fsys, "KeyError")
                      ELSE LET data == IterRows(wb[i], max_rows)
                           IN  Return(fsys, [success |-> TRUE, data |-> data,
                                             sheet_name |-> wb[i].title,
                                             rows |-> Len(data),
                                             columns |-> ColumnsOf(data)])
        ELSE IF ext = Dot \o CSV
        THEN IF CsvReadError(fsys, path) # ""
             THEN Raise(fsys, CsvReadError(fsys, path))
             ELSE LET data == CapRows(CsvData(fsys[path].rows), max_rows)
                  IN  Return(fsys, [success |-> TRUE, data |-> data,
                                    rows |-> Len(data),
                                    columns |-> ColumnsOf(data)])
        ELSE Raise(fsys, "UnsupportedFormat")

\* the workbook with the sheet write_spreadsheet writes to: a named sheet
\* that is absent is created after the others
WithSheet(wb, sheet) ==
    IF sheet # "" /\ sheet \notin SheetNames(wb)
    THEN Append(wb, NewSheet(sheet)) ELSE wb

\* the rows of the sheet after write_spreadsheet
WrittenSheetClearing(ws, data, append) ==
    WsAppendAll(WsDeleteAllRows(ws), data)

WrittenSheet(ws, data, append) ==
    WsAppendAll(IF append THEN ws ELSE WsDeleteAllRows(ws), data)

\* an element of data that is no list but a number (5): the model writes it
\* as a row holding this one mark, which is no cell value
NotAList == <<[k |-> "number", s |-> "5"]>>

AllLists(data) == \A i \in 1..Len(data) : data[i] # NotAList

\* the rows of data before its first element that is no list
RECURSIVE ListsBefore(_)
ListsBefore(data) ==
    IF data = <<>> \/ Head(data) = NotAList THEN <<>>
    ELSE <<Head(data)>> \o ListsBefore(Tail(data))

\* open(path, 'a' if append else 'w') and writerows(data)
CsvWritten(old, data, append) ==
    IF ~append THEN CsvFile(CsvRows(data))
    ELSE IF old.kind = "csv" THEN CsvFile(old.rows \o CsvRows(data))
    ELSE IF data = <<>> THEN old
    ELSE JunkFile

write_spreadsheet(base, fsys, filename, data, sheet, append) ==
    LET r == ResolvePath(base, fsys, filename, TRUE)
        path == r.path
        ext == Lower(SuffixOf(path))
    IN  IF r.exc # "" THEN Raise(fsys, r.exc)
        ELSE IF ext = Dot \o XLSX
        THEN IF LoadError(fsys, path) # "" THEN Raise(fsys, LoadError(fsys, path))
             ELSE IF ~AllLists(data) THEN Raise(fsys, "TypeError")
             ELSE LET wb == WithSheet(LoadWorkbook(fsys, path), sheet)
                      i == PickSheet(wb, sheet)
                      ws == WrittenSheet(wb[i], data, append)
                  IN  Return(SaveWorkbook(fsys, path, [wb EXCEPT ![i] = ws]),
                             [success |-> TRUE, rows_written |-> Len(data),
                              sheet |-> ws.title])
        ELSE IF ext = Dot \o CSV
        THEN IF IsDir(fsys, path) THEN Raise(fsys, "IsADirectoryError")
             ELSE IF ~AllLists(data)
             THEN Raise(Put(fsys, path,
                            CsvWritten(fsys[path], ListsBefore(data), append)),
                        "csv.Error")
             ELSE Return(Put(fsys, path, CsvWritten(fsys[path], data, append)),
                         [success |-> TRUE, rows_written |-> Len(data)])
        ELSE Raise(fsys, "UnsupportedFormat")

\* the value a cell holds after ws[cell] = formula
StoredValue(formula) == formula

set_formula(base, fsys, filename, sheet, cell, formula) ==
    LET r == ResolvePath(base, fsys, filename, TRUE)
        path == r.path
    IN  IF r.exc # "" THEN Raise(fsys, r.exc)
        ELSE IF LoadError(fsys, path) # "" THEN Raise(fsys, LoadError(fsys, path))
        ELSE LET wb == LoadWorkbook(fsys, path)
             IN  IF sheet \notin SheetNames(wb) THEN Raise(fsys, "KeyError")
                 ELSE LET i == SheetIndex(wb, sheet)
                          ws == WsSet(wb[i], cell, StoredValue(formula))
                      IN  Return(SaveWorkbook(fsys, path, [wb EXCEPT ![i] = ws]),
                                 [success |-> TRUE, cell |-> cell,
                                  formula |-> formula])

get_formula(base, fsys, filename, sheet, cell) ==
    LET r == ResolvePath(base, fsys, filename, TRUE)
        path == r.path
    IN  IF r.exc # "" THEN Raise(fsys, r.exc)
        ELSE IF LoadError(fsys, path) # "" THEN Raise(fsys, LoadError(fsys, path))
        ELSE LET wb == LoadWorkbook(fsys, path)
             IN  IF sheet \notin SheetNames(wb) THEN Raise(fsys, "KeyError")
                 ELSE Return(fsys,
                             [success |-> TRUE, cell |-> cell,
                              formula_or_value |->
                                  WsGet(wb[SheetIndex(wb, sheet)], cell)])

update_cell(base, fsys, filename, sheet, cell, value) ==
    LET r == ResolvePath(base, fsys, filename, TRUE)
        path == r.path
    IN  IF r.exc # "" THEN Raise(fsys, r.exc)
        ELSE IF LoadError(fsys, path) # "" THEN Raise(fsys, LoadError(fsys, path))
        ELSE LET wb == LoadWorkbook(fsys, path)
                 i == PickSheet(wb, sheet)
             IN  IF i = 0 THEN Raise(fsys, "KeyError")
                 ELSE Return(SaveWorkbook(fsys, path,
                                 [wb EXCEPT ![i] = WsSet(wb[i], cell, value)]),
                             [success |-> TRUE, cell |-> cell, value |-> value])

delete_spreadsheet(base, fsys, filename) ==
    LET r == ResolvePath(base, fsys, filename, TRUE)
    IN  IF r.exc # "" THEN Raise(fsys, r.exc)
        ELSE IF IsDir(fsys, r.path) THEN Raise(fsys, "IsADirectoryError")
        ELSE Return(Remove(fsys, r.path),
                    [success |-> TRUE, filename |-> filename])

\* fnmatch of a name against one segment of a glob pattern: '*' and what
\* follows it ('*', '*.csv'), or a name without wildcard
SegmentMatches(name, seg) ==
    IF seg # <<>> /\ Head(seg) = "*" THEN EndsWith(name, Tail(seg))
    ELSE name = seg

\* one segment of Path.glob applied to the directories found so far: '..'
\* goes to the parent, any other segment selects entries of the directory
GlobStep(fsys, dirs, seg) ==
    IF seg = <<".", ".">> THEN {ParentOf(d) : d \in dirs}
    ELSE {p \in DOMAIN fsys :
             /\ p # Slash
             /\ ParentOf(p) \in dirs
             /\ SegmentMatches(NameOf(p), seg)}

\* Path.glob(pattern) from directory start: the paths the pattern selects
RECURSIVE GlobFrom(_, _, _)
GlobFrom(fsys, found, segs) ==
    IF segs = <<>> THEN found
    ELSE GlobFrom(fsys,
                  GlobStep(fsys, {d \in found : IsDir(fsys, d)}, Head(segs)),
                  Tail(segs))

\* Path.glob refuses the empty pattern and an absolute one
GlobError(pattern) ==
    IF pattern = <<>> THEN "ValueError"
    ELSE IF StartsWith(pattern, Slash) THEN "NotImplementedError"
    ELSE ""

\* the paths list_files reports: the files the pattern selects whose
\* suffix, in lower case, is .xlsx or .csv
ListedPaths(base, fsys, pattern) ==
    {p \in GlobFrom(fsys, {ResolveStr(base)}, SplitSlash(pattern)) :
        /\ IsFile(fsys, p)
        /\ Lower(SuffixOf(p)) \in {Dot \o XLSX, Dot \o CSV}}

\* list_files: one entry per reported path (in the order of the directory,
\* which the model leaves open: the entries are kept by path), with the
\* name and the type; the size is the file's byte count, which the
\* contents of the model do not carry
list_files(base, fsys, pattern) ==
    IF GlobError(pattern) # "" THEN Raise(fsys, GlobError(pattern))
    ELSE LET listed == ListedPaths(base, fsys, pattern)
         IN  Return(fsys,
                    [success |-> TRUE,
                     files |-> [p \in listed |->
                                   [name |-> NameOf(p),
                                    type |-> Lower(SuffixOf(p))]],
                     count |-> Cardinality(listed)])

\* the path and its ancestors, '/' first
Ancestors(path) ==
    {SubSeq(path, 1, i) : i \in {j \in 1..Len(path) :
                                    j = 1 \/ j = Len(path) \/ path[j + 1] = "/"}}

\* Path.mkdir(parents=True, exist_ok=True): the missing directories of the
\* path are made; a file in the way raises
MkdirError(fsys, path) ==
    IF IsFile(fsys, path) THEN "FileExistsError"
    ELSE IF \E p \in Ancestors(path) : IsFile(fsys, p) THEN "NotADirectoryError"
    ELSE ""

MkdirParents(fsys, path) ==
    [p \in DOMAIN fsys \cup Ancestors(path) |->
        IF p \in DOMAIN fsys THEN fsys[p] ELSE Dir]

\* SpreadsheetServer.__init__: base_path is assigned, then the directory is
\* made; gives the base path and the file system after, and what is raised
__init__(fsys, new_base) ==
    LET dir == ResolveStr(new_base)
    IN  IF MkdirError(fsys, dir) # ""
        THEN [base |-> new_base, fs |-> fsys, exc |-> MkdirError(fsys, dir)]
        ELSE [base |-> new_base, fs |-> MkdirParents(fsys, dir), exc |-> ""]

\* the names handle_tools_list announces
Catalog ==
    {"list_files", "create_spreadsheet", "read_spreadsheet",
     "write_spreadsheet", "append_row", "update_cell", "delete_spreadsheet",
     "format_cells", "set_formula", "get_formula", "rename_sheet",
     "rename_file", "set_cell_format", "set_column_format", "set_row_format",
     "create_chart", "freeze_panes", "unfreeze_panes"}

\* handle_tool_call on a name outside the catalog: getattr finds nothing
\* (ValueError), or an attribute that cannot be called (base_path), or a
\* method that is no coroutine function, whose return value cannot be
\* awaited (_resolve_path): a TypeError unless the method raised before
NonCatalogCall(base, fsys, tool, args) ==
    IF tool = "_resolve_path"
    THEN LET r == ResolvePath(base, fsys, args.filename, FALSE)
         IN  Raise(fsys, IF r.exc # "" THEN r.exc ELSE "TypeError")
    ELSE IF tool = "base_path" THEN Raise(fsys, "TypeError")
    ELSE Raise(fsys, "UnknownTool")

\* str.lstrip('#'): every leading '#' goes
RECURSIVE LStripHash(_)
LStripHash(s) ==
    IF s # <<>> /\ Head(s) = "#" THEN LStripHash(Tail(s)) ELSE s

\* the body of _normalize_color: None for a colour that is absent or empty
_normalize_color(color) ==
    IF color = <<>> THEN [kind |-> "none", argb |-> <<>>]
    ELSE LET c == LStripHash(color)
         IN  IF Len(c) = 6 THEN [kind |-> "color", argb |-> <<"F", "F">> \o Upper(c)]
             ELSE IF Len(c) = 8 THEN [kind |-> "color", argb |-> Upper(c)]
             ELSE [kind |-> "error", argb |-> <<>>]

\* self._normalize_color(bg_color), as format_cells and set_cell_format
\* call it: the function is a staticmethod that declares self, so bg_color
\* is bound to self and color is missing, a TypeError whatever bg_color is
NormalizeAsCalled(bg_color) == [kind |-> "type_error", argb |-> <<>>]

\* cell.font = Font(bold, italic) when one of them is set, and cell.fill =
\* PatternFill(start_color) when there is a colour, on the cells of coords;
\* ws[...] makes the cells that are not there
WsStyle(ws, coords, bold, italic, argb) ==
    LET Old(k) == IF k \in DOMAIN ws.cells THEN ws.cells[k] ELSE NewCell(NoneV)
        Styled(c) ==
            [c EXCEPT !.font = IF bold \/ italic
                               THEN [bold |-> bold, italic |-> italic] ELSE @,
                      !.fill = IF argb # <<>> THEN argb ELSE @]
    IN  [ws EXCEPT !.cells = [k \in DOMAIN ws.cells \cup coords |->
                                 IF k \in coords THEN Styled(Old(k))
                                 ELSE ws.cells[k]]]

\* what follows the load of the workbook in format_cells and in
\* set_cell_format: the colour is normalized, the cells are styled, the
\* workbook is saved (font_size is left out: the fonts of the model carry
\* bold and italic)
StyleAndSave(fsys, path, sheet, coords, bold, italic, bg_color, result) ==
    LET wb == LoadWorkbook(fsys, path)
        c == NormalizeAsCalled(bg_color)
    IN  IF sheet \notin SheetNames(wb) THEN Raise(fsys, "KeyError")
        ELSE IF c.kind = "type_error" THEN Raise(fsys, "TypeError")
        ELSE IF c.kind = "error" THEN Raise(fsys, "InvalidColor")
        ELSE LET i == SheetIndex(wb, sheet)
                 ws == WsStyle(wb[i], coords, bold, italic, c.argb)
             IN  Return(SaveWorkbook(fsys, path, [wb EXCEPT ![i] = ws]), result)

format_cells(base, fsys, filename, sheet, cell_range, bold, italic, bg_color) ==
    LET r == ResolvePath(base, fsys, filename, TRUE)
    IN  IF r.exc # "" THEN Raise(fsys, r.exc)
        ELSE IF LoadError(fsys, r.path) # ""
        THEN Raise(fsys, LoadError(fsys, r.path))
        ELSE StyleAndSave(fsys, r.path, sheet, cell_range, bold, italic,
                          bg_color, [success |-> TRUE, range |-> cell_range])

set_cell_format(base, fsys, filename, sheet, cell, bold, italic, bg_color) ==
    LET r == ResolvePath(base, fsys, filename, TRUE)
    IN  IF r.exc # "" THEN Raise(fsys, r.exc)
        ELSE IF LoadError(fsys, r.path) # ""
        THEN Raise(fsys, LoadError(fsys, r.path))
        ELSE StyleAndSave(fsys, r.path, sheet, {cell}, bold, italic,
                          bg_color, [success |-> TRUE, cell |-> cell])

(***************************************************************************)
(* The arguments the requests are drawn from.                              *)
(***************************************************************************)
FileA == <<"a">> \o Dot \o XLSX
FileNoExt == <<"a">>
FileB == <<"b">> \o Dot \o CSV
\* '..' segments into a directory beside the base whose name starts with
\* the base's name, and an absolute path outside the base
FileSibling == <<".", ".", "/", "s", "x", "/", "e">> \o Dot \o XLSX
FileAbsolute == <<"/", "w", "/", "e">> \o Dot \o XLSX
\* below a directory that does not exist
FileSubdir == <<"d", "/", "a">> \o Dot \o XLSX
\* the empty filename names the base directory itself
FileEmpty == <<>>

FilenameArgs ==
    {FileA, FileNoExt, FileB, FileSibling, FileAbsolute, FileSubdir, FileEmpty}
\* the files of the base directory that hold a workbook or csv text: read,
\* write and the cell operations raise on every other filename before they
\* look at another argument (FileSibling is tried for what it lets through),
\* so those are tried with the other arguments at one value
ContentFiles == {FileA, FileB}
OtherFiles == FilenameArgs \ ContentFiles
\* filenames that resolve to nothing that can exist: rename_file raises on
\* such an old_filename before it looks at new_filename
NeverFiles == {FileAbsolute, FileSubdir}

HeaderArgs == {<<>>, <<StrV("h")>>}
\* cell references A1 and B2, as (row, column)
CellArgs == {<<1, 1>>, <<2, 2>>}
ValueArgs == {StrV(""), StrV("=A1+1")}
DataArgs ==
    {<<>>, <<<<StrV("x")>>>>, <<<<StrV("x"), StrV("y")>>, <<StrV("")>>>>}
\* max_rows as the request gives it, an integer; a request without max_rows
\* (None) is served as one with 0 is
MaxRowsArgs == {0, 1}

\* a format that is neither xlsx nor csv is rejected after the target was
\* looked for, whatever the headers
CreateArgs ==
    [filename : {FileA, FileNoExt, FileB}, format : {XLSX, CSV},
     headers : HeaderArgs, sheet_name : {"Sheet1"}]
    \cup [filename : FilenameArgs, format : {XLSX, CSV}, headers : {<<>>},
          sheet_name : {"Sheet1"}]
    \cup [filename : {FileA, FileNoExt}, format : {TXT}, headers : {<<>>},
          sheet_name : {"Sheet1"}]
RenameArgs ==
    [old_filename : {FileA, FileB, FileEmpty}, new_filename : FilenameArgs]
    \cup [old_filename : {FileNoExt, FileSibling},
          new_filename : {FileA, FileNoExt}]
    \cup [old_filename : NeverFiles, new_filename : {FileB}]
\* the csv branches do not look at the sheet argument
ReadArgs ==
    [filename : {FileA}, sheet : {"", "S2"}, max_rows : MaxRowsArgs]
    \cup [filename : {FileB}, sheet : {""}, max_rows : MaxRowsArgs]
    \cup [filename : OtherFiles, sheet : {""}, max_rows : {0}]
WriteArgs ==
    [filename : {FileA}, data : DataArgs, sheet : {"", "S2"},
     append : BOOLEAN]
    \cup [filename : {FileB}, data : DataArgs, sheet : {""}, append : BOOLEAN]
    \cup [filename : ContentFiles, data : {<<<<StrV("x")>>, NotAList>>},
          sheet : {""}, append : BOOLEAN]
    \cup [filename : OtherFiles, data : {<<<<StrV("x")>>>>}, sheet : {""},
          append : {FALSE}]
\* the cell operations load a workbook: on the csv file they raise before
\* they look at another argument
SetFormulaArgs ==
    [filename : {FileA}, sheet : {"Sheet1", "S2"}, cell : CellArgs,
     formula : ValueArgs]
    \cup [filename : OtherFiles \cup {FileB}, sheet : {"Sheet1"}, cell : {<<1, 1>>},
          formula : {StrV("=A1+1")}]
GetFormulaArgs ==
    [filename : {FileA}, sheet : {"Sheet1", "S2"}, cell : CellArgs]
    \cup [filename : OtherFiles \cup {FileB}, sheet : {"Sheet1"}, cell : {<<1, 1>>}]
UpdateCellArgs ==
    [filename : {FileA}, sheet : {"", "S2"}, cell : CellArgs,
     value : {StrV("x")}]
    \cup [filename : OtherFiles \cup {FileB}, sheet : {""}, cell : {<<1, 1>>},
          value : {StrV("x")}]
DeleteArgs == [filename : FilenameArgs]
\* bg_color: omitted (None), and a colour of 6 hex digits behind '#'
Green == <<"#", "0", "0", "f", "f", "0", "0">>
ColorChoices == {<<>>, Green}
\* the range A1:B1 as its cells, and the cell A1
FormatCellsArgs ==
    [filename : {FileA}, sheet : {"Sheet1"}, cell_range : {{<<1, 1>>, <<1, 2>>}},
     bold : {TRUE}, italic : {FALSE}, bg_color : ColorChoices]
    \cup [filename : {FileB}, sheet : {"Sheet1"},
          cell_range : {{<<1, 1>>, <<1, 2>>}}, bold : {TRUE}, italic : {FALSE},
          bg_color : {<<>>}]
SetCellFormatArgs ==
    [filename : {FileA}, sheet : {"Sheet1"}, cell : {<<1, 1>>},
     bold : {FALSE}, italic : {FALSE}, bg_color : ColorChoices]
\* glob patterns: every entry, the csv files, the entries of the parent
\* directory, an absolute pattern and the empty one
PatternArgs ==
    {<<"*">>, <<"*">> \o Dot \o CSV, <<".", ".", "/", "*">>,
     <<"/", "w", "/", "*">>, <<>>}
ListArgs == [pattern : PatternArgs]
\* names that are not in the catalog, with arguments
NonCatalogArgs ==
    [tool : {"no_such_tool", "base_path", "_resolve_path"}, filename : {FileA}]
\* base_path arguments for __init__: the default one and another directory
\* of the working directory, which does not exist yet
OtherBasePath == <<"t">>
InitArgs == [base_path : {DefaultBasePath, OtherBasePath}]

(***************************************************************************)
(* The state: the file system, the server's base path, where the request   *)
(* loop of main is, the number of lines it has read, the last line read    *)
(* and the response lines written for it.                                  *)
(***************************************************************************)
VARIABLES fs, base_path, pc, n, req, out, color, norm

vars == <<fs, base_path, pc, n, req, out, color, norm>>

BaseDir == ResolveStr(DefaultBasePath)
SiblingDir == ResolveStr(<<"s", "x">>)

HeaderSheet == SaveSheet(CreatedSheet("Sheet1", <<StrV("h")>>))

\* the directories, and the files outside the base directory
OutsideFiles ==
    [p \in {Slash, Cwd, BaseDir, SiblingDir,
            ResolveStr(<<"s", "x", "/", "e">> \o Dot \o XLSX),
            ResolveStr(<<"e">> \o Dot \o XLSX)} |->
        IF p \in {Slash, Cwd, BaseDir, SiblingDir} THEN Dir
        ELSE XlsxFile(<<HeaderSheet>>)]

\* the files the server finds at start-up: a workbook and a csv file in the
\* base directory, left there by an earlier run
InitialFiles ==
    Put(Put(OutsideFiles, ResolveStr(JoinPath(DefaultBasePath, FileA)),
            XlsxFile(<<HeaderSheet>>)),
        ResolveStr(JoinPath(DefaultBasePath, FileB)),
        CsvFile(<<<<"h">>>>))

NoRequest == [kind |-> "none"]
NotNormalized == [kind |-> "unset", argb |-> <<>>]

\* SpreadsheetServer(): base_path is "spreadsheets" below the working
\* directory, which mkdir(exist_ok=True) makes sure exists
Init ==
    /\ fs = InitialFiles
    /\ base_path = DefaultBasePath
    /\ pc = "running"
    /\ n = 0
    /\ req = NoRequest
    /\ out = <<>>
    /\ color = <<>>
    /\ norm = NotNormalized

(***************************************************************************)
(* main: one action per kind of line, each the whole iteration of the loop *)
(* (read the line, decode it, dispatch, write the response).               *)
(***************************************************************************)
\* send_response of a result, and of the error handle_tool_call builds
ResultEnvelope(id, result) ==
    [jsonrpc |-> "2.0", id |-> id, kind |-> "result", result |-> result]
ErrorEnvelopeAsResult(id, message) ==
    [jsonrpc |-> "2.0", id |-> id, kind |-> "result",
     result |-> [success |-> TRUE]]

ErrorEnvelope(id, message) ==
    [jsonrpc |-> "2.0", id |-> id, kind |-> "error", code |-> -32000,
     message |-> message]

\* the loop reads a line only while it runs
Reading == pc = "running" /\ n < MaxRequests

\* readline returns '' at end of input: break, nothing is written
ReadEOF ==
    /\ pc = "running"
    /\ pc' = "stopped"
    /\ req' = [kind |-> "eof"]
    /\ out' = <<>>
    /\ UNCHANGED <<fs, base_path, n, color, norm>>

\* a line of white space only: continue
ReadBlank ==
    /\ Reading
    /\ n' = n + 1
    /\ req' = [kind |-> "blank"]
    /\ out' = <<>>
    /\ UNCHANGED <<fs, base_path, pc, color, norm>>

\* json.loads raises on text that is not JSON, request.get raises on JSON
\* that is not an object: nothing in main catches either
ReadUndecodable ==
    /\ Reading
    /\ \E kind \in {"invalid_json", "not_object"} :
           req' = [kind |-> kind]
    /\ n' = n + 1
    /\ pc' = "crashed"
    /\ out' = <<>>
    /\ UNCHANGED <<fs, base_path, color, norm>>

\* the id of the request: the client numbers its requests
RequestId == n + 1

ReadInitialize ==
    /\ Reading
    /\ req' = [kind |-> "request", method |-> "initialize", id |-> RequestId]
    /\ out' = <<ResultEnvelope(RequestId, [protocolVersion |-> "2024-11-05"])>>
    /\ n' = n + 1
    /\ UNCHANGED <<fs, base_path, pc, color, norm>>

ReadToolsList ==
    /\ Reading
    /\ req' = [kind |-> "request", method |-> "tools/list", id |-> RequestId]
    /\ out' = <<ResultEnvelope(RequestId, [tools |-> "catalog"])>>
    /\ n' = n + 1
    /\ UNCHANGED <<fs, base_path, pc, color, norm>>

\* a method that is none of the three: no branch of main is taken
ReadOtherMethod ==
    /\ Reading
    /\ \E method \in {"ping", "notifications/initialized"} :
           req' = [kind |-> "request", method |-> method, id |-> RequestId]
    /\ out' = <<>>
    /\ n' = n + 1
    /\ UNCHANGED <<fs, base_path, pc, color, norm>>

\* tools/call without "params", or whose params have no "name":
\* request["params"]["name"] raises KeyError in main
ReadCallWithoutName ==
    /\ Reading
    /\ \E missing \in {"params", "name"} :
           req' = [kind |-> "request", method |-> "tools/call",
                   id |-> RequestId, tool |-> "", missing |-> missing]
    /\ n' = n + 1
    /\ pc' = "crashed"
    /\ out' = <<>>
    /\ UNCHANGED <<fs, base_path, color, norm>>

\* handle_tool_call: the operation's dict goes out as a result, whatever it
\* raises goes out as an error; the loop goes on
ToolCall(tool, args, o) ==
    /\ Reading
    /\ req' = [kind |-> "request", method |-> "tools/call", id |-> RequestId,
               tool |-> tool, args |-> args]
    /\ fs' = o.fs
    /\ out' = <<IF o.exc = "" THEN ResultEnvelope(RequestId, o.result)
                ELSE ErrorEnvelope(RequestId, o.exc)>>
    /\ n' = n + 1
    /\ UNCHANGED <<base_path, pc, color, norm>>

\* the name is not in the catalog
CallUnknownTool ==
    \E a \in NonCatalogArgs :
        ToolCall(a.tool, [filename |-> a.filename],
                 NonCatalogCall(base_path, fs, a.tool, [filename |-> a.filename]))

\* the name is __init__: getattr finds the constructor of the server, which
\* runs on the arguments; it returns None, which cannot be awaited, so the
\* response is an error whether or not mkdir raised
CallConstructor ==
    \E a \in InitArgs :
        LET o == __init__(fs, a.base_path)
        IN  /\ Reading
            /\ req' = [kind |-> "request", method |-> "tools/call",
                       id |-> RequestId, tool |-> "__init__", args |-> a]
            /\ base_path' = o.base
            /\ fs' = o.fs
            /\ out' = <<ErrorEnvelope(RequestId,
                                      IF o.exc # "" THEN o.exc ELSE "TypeError")>>
            /\ n' = n + 1
            /\ UNCHANGED <<pc, color, norm>>

CallListFiles ==
    \E a \in ListArgs :
        ToolCall("list_files", a, list_files(base_path, fs, a.pattern))

CallCreate ==
    \E a \in CreateArgs :
        ToolCall("create_spreadsheet", a,
                 create_spreadsheet(base_path, fs, a.filename, a.format,
                                    a.headers, a.sheet_name))

CallRenameFile ==
    \E a \in RenameArgs :
        ToolCall("rename_file", a,
                 rename_file(base_path, fs, a.old_filename, a.new_filename))

CallRead ==
    \E a \in ReadArgs :
        ToolCall("read_spreadsheet", a,
                 read_spreadsheet(base_path, fs, a.filename, a.sheet, a.max_rows))

CallWrite ==
    \E a \in WriteArgs :
        ToolCall("write_spreadsheet", a,
                 write_spreadsheet(base_path, fs, a.filename, a.data, a.sheet,
                                   a.append))

CallSetFormula ==
    \E a \in SetFormulaArgs :
        ToolCall("set_formula", a,
                 set_formula(base_path, fs, a.filename, a.sheet, a.cell,
                             a.formula))

CallGetFormula ==
    \E a \in GetFormulaArgs :
        ToolCall("get_formula", a,
                 get_formula(base_path, fs, a.filename, a.sheet, a.cell))

CallUpdateCell ==
    \E a \in UpdateCellArgs :
        ToolCall("update_cell", a,
                 update_cell(base_path, fs, a.filename, a.sheet, a.cell, a.value))

CallDelete ==
    \E a \in DeleteArgs :
        ToolCall("delete_spreadsheet", a,
                 delete_spreadsheet(base_path, fs, a.filename))

CallFormatCells ==
    \E a \in FormatCellsArgs :
        ToolCall("format_cells", a,
                 format_cells(base_path, fs, a.filename, a.sheet, a.cell_range,
                              a.bold, a.italic, a.bg_color))

CallSetCellFormat ==
    \E a \in SetCellFormatArgs :
        ToolCall("set_cell_format", a,
                 set_cell_format(base_path, fs, a.filename, a.sheet, a.cell,
                                 a.bold, a.italic, a.bg_color))

Next ==
    \/ ReadEOF
    \/ ReadBlank
    \/ ReadUndecodable
    \/ ReadInitialize
    \/ ReadToolsList
    \/ ReadOtherMethod
    \/ ReadCallWithoutName
    \/ CallUnknownTool
    \/ CallConstructor
    \/ CallListFiles
    \/ CallCreate
    \/ CallRenameFile
    \/ CallRead
    \/ CallWrite
    \/ CallSetFormula
    \/ CallGetFormula
    \/ CallUpdateCell
    \/ CallDelete
    \/ CallFormatCells
    \/ CallSetCellFormat

Spec == Init /\ [][Next]_vars

(***************************************************************************)
(* _normalize_color as a function of its argument: the colour is drawn     *)
(* from the strings of '0' and 'f' of up to MaxColorLen characters behind  *)
(* no, one or two '#'.                                                     *)
(***************************************************************************)
RECURSIVE HexStrings(_)
HexStrings(len) ==
    IF len = 0 THEN {<<>>}
    ELSE LET shorter == HexStrings(len - 1)
         IN  shorter \cup {Append(h, c) : h \in {x \in shorter : Len(x) = len - 1},
                                          c \in {"0", "f"}}

ColorArgs ==
    {hashes \o body : hashes \in {<<>>, <<"#">>, <<"#", "#">>},
                      body \in HexStrings(MaxColorLen)}

InitColor ==
    /\ fs = InitialFiles
    /\ base_path = DefaultBasePath
    /\ pc = "running"
    /\ n = 0
    /\ req = NoRequest
    /\ out = <<>>
    /\ color \in ColorArgs
    /\ norm = NotNormalized

\* the function called with both of its parameters
Normalize ==
    /\ norm = NotNormalized
    /\ norm' = _normalize_color(color)
    /\ UNCHANGED <<fs, base_path, pc, n, req, out, color>>

\* the function called as format_cells and set_cell_format call it,
\* self._normalize_color(bg_color): it is a staticmethod that declares self,
\* so bg_color is bound to self and color is missing, a TypeError
NormalizeAsMethod ==
    /\ norm = NotNormalized
    /\ norm' = NormalizeAsCalled(color)
    /\ UNCHANGED <<fs, base_path, pc, n, req, out, color>>

NextColor == Normalize \/ NormalizeAsMethod

SpecColor == InitColor /\ [][NextColor]_vars

(***************************************************************************)
(* What the claims speak of.                                               *)
(***************************************************************************)
\* the operations that hand a filename to _resolve_path
ResolvingTools ==
    {"create_spreadsheet", "rename_file", "read_spreadsheet",
     "write_spreadsheet", "set_formula", "get_formula", "update_cell",
     "delete_spreadsheet", "format_cells", "set_cell_format"}

IsToolCall(r) ==
    r.kind = "request" /\ r.method = "tools/call" /\ r.tool \in ResolvingTools

IsCall(r, tool) == IsToolCall(r) /\ r.tool = tool

\* the response lines are one result carrying {success: true, ...}
Succeeded(o) ==
    Len(o) = 1 /\ o[1].kind = "result" /\ o[1].result.success = TRUE

\* the response lines are one result carrying {success: false, error}
FailureObject(o) ==
    /\ Len(o) = 1
    /\ o[1].kind = "result"
    /\ o[1].result.success = FALSE
    /\ "error" \in DOMAIN o[1].result

\* the resolved absolute path of a filename argument
Resolved(filename) == ResolveStr(JoinPath(base_path, filename))

\* path is the base directory or lies below it
Descendant(path) ==
    LET base == ResolveStr(base_path)
    IN  path = base \/ StartsWith(path, base \o Slash)

\* the filenames a call hands to the resolver, in the file system it finds:
\* rename_file resolves new_filename once old_filename has resolved
ResolverArgs(r, fsys) ==
    IF r.tool = "create_spreadsheet"
    THEN {WithExtension(r.args.filename, r.args.format)}
    ELSE IF r.tool = "rename_file"
    THEN {r.args.old_filename}
         \cup (IF Exists(fsys, Resolved(r.args.old_filename))
               THEN {r.args.new_filename} ELSE {})
    ELSE {r.args.filename}

\* C1: an operation given a filename whose resolved path is not a
\* descendant of the base directory answers with the path-traversal error
\* and leaves every file as it was
C1_TraversalRejected ==
    [][(/\ IsToolCall(req')
        /\ \E f \in ResolverArgs(req', fs) : ~Descendant(Resolved(f)))
       => (/\ out' = <<ErrorEnvelope(req'.id, "PathTraversal")>>
           /\ fs' = fs)]_vars

\* C2: for every line that is not empty the loop has written exactly one
\* response line when it turns to the next line
C2_OneResponsePerLine ==
    req.kind \in {"request", "invalid_json", "not_object"} => Len(out) = 1

\* C3: the loop runs after every line; it stops at end of input only, and
\* writes nothing then
C3_NoLineIsFatal ==
    \/ pc = "running"
    \/ pc = "stopped" /\ req.kind = "eof" /\ out = <<>>

\* the path _resolve_path gives for a filename; Accepted when it raises
\* no path-traversal error
Accepted(filename) == InsideBase(Resolved(filename), base_path)

\* the file create_spreadsheet is to create
CreateTarget(a) == WithExtension(a.filename, a.format)

\* C4: create_spreadsheet whose target file exists returns a failure object
\* and changes no file
C4_CreateRejectsExisting ==
    [][(/\ IsCall(req', "create_spreadsheet")
        /\ Accepted(CreateTarget(req'.args))
        /\ Exists(fs, Resolved(CreateTarget(req'.args))))
       => (FailureObject(out') /\ fs' = fs)]_vars

\* a create_spreadsheet call found its target there and returned the
\* failure object
C4_Witness ==
    /\ IsCall(req, "create_spreadsheet")
    /\ req.args.format = XLSX
    /\ req.args.filename = FileA
    /\ FailureObject(out)

\* C5: after a successful create_spreadsheet (format xlsx or csv), a
\* read_spreadsheet with the same filename argument succeeds and returns
\* the headers as the only row, or no row when no headers were given
C5_CreateThenRead ==
    [][(/\ IsCall(req, "create_spreadsheet")
        /\ Succeeded(out)
        /\ IsCall(req', "read_spreadsheet")
        /\ req'.args.filename = req.args.filename
        /\ req'.args.sheet = ""
        /\ req'.args.max_rows = 0)
       => (/\ Succeeded(out')
           /\ out'[1].result.data =
                  (IF req.args.headers # <<>> THEN <<req.args.headers>>
                   ELSE <<>>)
           /\ out'[1].result.rows = Len(out'[1].result.data)
           /\ out'[1].result.columns = Len(req.args.headers))]_vars

\* C6: get_formula right after a successful set_formula on the same file,
\* sheet and cell returns the string that was set
C6_FormulaRoundTrip ==
    [][(/\ IsCall(req, "set_formula")
        /\ Succeeded(out)
        /\ IsCall(req', "get_formula")
        /\ req'.args.filename = req.args.filename
        /\ req'.args.sheet = req.args.sheet
        /\ req'.args.cell = req.args.cell)
       => (/\ Succeeded(out')
           /\ out'[1].result.formula_or_value = req.args.formula)]_vars

\* rename_file's two names resolve, to these paths
RenameResolves(a) == Accepted(a.old_filename) /\ Accepted(a.new_filename)
OldPath(a) == Resolved(a.old_filename)
NewPath(a) == Resolved(a.new_filename)

\* C7: rename_file onto a name that exists returns a failure object and
\* changes no file
C7_RenameOntoExisting ==
    [][(/\ IsCall(req', "rename_file")
        /\ RenameResolves(req'.args)
        /\ Exists(fs, OldPath(req'.args))
        /\ Exists(fs, NewPath(req'.args)))
       => (FailureObject(out') /\ fs' = fs)]_vars

\* a rename_file call met two existing files and returned the failure
\* object
C7_Witness ==
    /\ IsCall(req, "rename_file")
    /\ req.args.old_filename = FileA
    /\ req.args.new_filename = FileB
    /\ FailureObject(out)
    /\ fs = InitialFiles

\* what C8 promises of one rename: the result names both files, old is
\* gone, new holds what old held, every other path is as it was
RenamedExactly(a, before, after, o) ==
    /\ o = <<ResultEnvelope(o[1].id,
                            [success |-> TRUE, old |-> NameOf(OldPath(a)),
                             new |-> NameOf(NewPath(a))])>>
    /\ ~Exists(after, OldPath(a))
    /\ Exists(after, NewPath(a))
    /\ after[NewPath(a)] = before[OldPath(a)]
    /\ DOMAIN after = (DOMAIN before \ {OldPath(a)}) \cup {NewPath(a)}
    /\ \A q \in DOMAIN after \ {NewPath(a)} : after[q] = before[q]

\* C8 as claimed: rename_file of an existing file to an absent name renames
C8_RenameToAbsent ==
    [][(/\ IsCall(req', "rename_file")
        /\ RenameResolves(req'.args)
        /\ IsFile(fs, OldPath(req'.args))
        /\ ~Exists(fs, NewPath(req'.args)))
       => RenamedExactly(req'.args, fs, fs', out')]_vars

\* C8 amended: rename_file of an existing file to an absent name in an
\* existing directory renames
C8_RenameToAbsentInDirectory ==
    [][(/\ IsCall(req', "rename_file")
        /\ RenameResolves(req'.args)
        /\ IsFile(fs, OldPath(req'.args))
        /\ ~Exists(fs, NewPath(req'.args))
        /\ IsDir(fs, ParentOf(NewPath(req'.args))))
       => RenamedExactly(req'.args, fs, fs', out')]_vars

\* a rename_file call moved the workbook of the base directory to a name
\* that was free
C8_Witness ==
    /\ IsCall(req, "rename_file")
    /\ req.args.old_filename = FileA
    /\ req.args.new_filename = FileNoExt
    /\ Succeeded(out)
    /\ ~Exists(fs, Resolved(FileA))
    /\ fs[Resolved(FileNoExt)] = InitialFiles[Resolved(FileA)]

\* the number of rows read_spreadsheet reports for a file (and sheet)
RowCount(fsys, filename, sheet) ==
    read_spreadsheet(base_path, fsys, filename, sheet, 0).result.rows

\* an overwriting write_spreadsheet is followed by an appending one on the
\* same file and sheet, both successful
OverwriteThenAppend ==
    /\ IsCall(req, "write_spreadsheet")
    /\ ~req.args.append
    /\ Succeeded(out)
    /\ IsCall(req', "write_spreadsheet")
    /\ req'.args.append
    /\ Succeeded(out')
    /\ req'.args.filename = req.args.filename
    /\ req'.args.sheet = req.args.sheet

LastRowCounts(data) ==
    /\ data # <<>>
    /\ \E i \in 1..Len(data[Len(data)]) : data[Len(data)][i] # NoneV

ClaimedColor(c) ==
    LET body == IF c # <<>> /\ Head(c) = "#" THEN Tail(c) ELSE c
    IN  IF Len(body) = 6 THEN [kind |-> "color", argb |-> <<"F", "F">> \o Upper(body)]
        ELSE IF Len(body) = 8 THEN [kind |-> "color", argb |-> Upper(body)]
        ELSE [kind |-> "error", argb |-> <<>>]

C10_ColorNormalization ==
    norm # NotNormalized => norm = ClaimedColor(color)

\* the operations of the model that change a file's content
MutatingTools ==
    {"write_spreadsheet", "set_formula", "update_cell", "format_cells",
     "set_cell_format"}

\* the filename of the request names a workbook or a csv file that is there
OnExistingFile(r, fsys) ==
    /\ Accepted(r.args.filename)
    /\ IsFile(fsys, Resolved(r.args.filename))
    /\ fsys[Resolved(r.args.filename)].kind \in {"xlsx", "csv"}

\* C11: a mutating operation on an existing xlsx or csv file that ends in
\* an error or a failure object leaves every file as it was
C11_FailureLeavesFile ==
    [][(/\ IsToolCall(req')
        /\ req'.tool \in MutatingTools
        /\ OnExistingFile(req', fs)
        /\ ~Succeeded(out'))
       => fs' = fs]_vars

\* a tools/call request that carries a name, outside the catalog
NonCatalogRequest(r) ==
    /\ r.kind = "request"
    /\ r.method = "tools/call"
    /\ "args" \in DOMAIN r
    /\ r.tool \notin Catalog

\* C12: a tools/call request whose name is not in the catalog is answered
\* by exactly one error envelope, code -32000, with the request's id
C12_UnknownToolIsError ==
    NonCatalogRequest(req)
    => /\ Len(out) = 1
       /\ out[1].kind = "error"
       /\ out[1].code = -32000
       /\ out[1].id = req.id

\* a name that getattr does not find was answered with the error
C12_Witness ==
    /\ NonCatalogRequest(req)
    /\ req.tool = "no_such_tool"
    /\ out = <<ErrorEnvelope(req.id, "UnknownTool")>>

\* C13: a successful create_spreadsheet returns, for format xlsx, exactly
\* success, filename, path, sheet_name (the created sheet's name) and
\* original_sheet_name (null); for format csv exactly success, filename, path
C13_CreateResultSchema ==
    (IsCall(req, "create_spreadsheet") /\ Succeeded(out))
    => LET result == out[1].result
       IN  /\ req.args.format = XLSX
              => /\ DOMAIN result = {"success", "filename", "path",
                                      "sheet_name", "original_sheet_name"}
                 /\ result.sheet_name = req.args.sheet_name
                 /\ result.original_sheet_name = NoneV
           /\ req.args.format = CSV
              => DOMAIN result = {"success", "filename", "path"}

\* a list_files request that was answered with a listing
Listed(r, o) ==
    /\ r.kind = "request"
    /\ r.method = "tools/call"
    /\ r.tool = "list_files"
    /\ Succeeded(o)

\* C14: list_files reports only files below the base directory with the
\* extension .xlsx or .csv, and count is the number of entries
C14_ListsOnlyBaseFiles ==
    Listed(req, out)
    => LET files == out[1].result.files
       IN  /\ \A p \in DOMAIN files :
                  /\ IsFile(fs, p)
                  /\ Descendant(p) /\ p # ResolveStr(base_path)
                  /\ files[p].type \in {Dot \o XLSX, Dot \o CSV}
           /\ out[1].result.count = Cardinality(DOMAIN files)

\* C15: a filename that resolves to the base directory itself is rejected
\* by the resolver, so the operation ends in the path-traversal error
C15_BaseItselfRejected ==
    [][(/\ IsToolCall(req')
        /\ \E f \in ResolverArgs(req', fs) : Resolved(f) = ResolveStr(base_path))
       => out' = <<ErrorEnvelope(req'.id, "PathTraversal")>>]_vars

\* the cells a formatting request names
FormattedCells(a) ==
    IF "cell" \in DOMAIN a THEN {a.cell} ELSE a.cell_range

\* a formatting request on a workbook that is there, with a sheet it has
FormatsExistingSheet(r, fsys) ==
    /\ IsToolCall(r)
    /\ r.tool \in {"format_cells", "set_cell_format"}
    /\ OnExistingFile(r, fsys)
    /\ fsys[Resolved(r.args.filename)].kind = "xlsx"
    /\ r.args.sheet \in SheetNames(fsys[Resolved(r.args.filename)].sheets)

\* the file holds the styling the request asked for: the font on every
\* cell when bold or italic is set, the normalized colour as fill when a
\* colour was given
StylingPersisted(a, fsys) ==
    LET sheets == fsys[Resolved(a.filename)].sheets
        cells == sheets[SheetIndex(sheets, a.sheet)].cells
        wanted == _normalize_color(a.bg_color)
    IN  \A k \in FormattedCells(a) :
            /\ (a.bold \/ a.italic)
               => /\ k \in DOMAIN cells
                  /\ cells[k].font = [bold |-> a.bold, italic |-> a.italic]
            /\ wanted.kind = "color"
               => /\ k \in DOMAIN cells
                  /\ cells[k].fill = wanted.argb

\* C16: format_cells and set_cell_format on an existing workbook and
\* sheet, with bg_color omitted or a valid colour, succeed and persist the
\* styling
C16_FormattingSucceeds ==
    [][FormatsExistingSheet(req', fs)
       => (Succeeded(out') /\ StylingPersisted(req'.args, fs'))]_vars

\* the rows of the file (and sheet) a read request names, all of them
AllRows(r, fsys) ==
    read_spreadsheet(base_path, fsys, r.args.filename, r.args.sheet, 0).result.data

\* the first rows of a list, at most count of them
FirstRows(rows, count) ==
    SubSeq(rows, 1, IF count < Len(rows) THEN count ELSE Len(rows))

\* C17: read_spreadsheet with max_rows = n returns the first min(n, total)
\* rows, rows is their number, columns the length of the first of them or
\* 0 without rows, and no file is modified
C17_ReadHonoursCap ==
    [][(IsCall(req', "read_spreadsheet") /\ Succeeded(out'))
       => LET result == out'[1].result
          IN  /\ result.data = FirstRows(AllRows(req', fs), req'.args.max_rows)
              /\ result.rows = Len(result.data)
              /\ result.columns =
                     (IF result.data = <<>> THEN 0 ELSE Len(result.data[1]))
              /\ fs' = fs]_vars

\* C18: whatever was requested, the base path is the one of start-up and
\* every directory that was not there at start-up lies below it
C18_ConfigurationUnchanged ==
    /\ base_path = DefaultBasePath
    /\ \A p \in DOMAIN fs :
           (IsDir(fs, p) /\ p \notin DOMAIN InitialFiles)
           => StartsWith(p, BaseDir \o Slash)

====
